---- MODULE Spec2Model ----
(***************************************************************************)
(* Vision-based autonomous car simulator: the kinematic bicycle model of   *)
(* car.py, the lane detector and the two control laws of controllers.py,   *)
(* and the run loop of main.py.                                            *)
(*                                                                         *)
(* Numbers.  The steering, speed, lane-estimate and look-ahead values are  *)
(* exact rationals <<n, d>> (d > 0, lowest terms), so clamps, signs and    *)
(* equalities are decided exactly.  The pose (x, y, angle) goes through    *)
(* sin, cos and tan and is kept in fixed point: x and y in thousandths of  *)
(* a unit, angle in hundredths of a degree.                                *)
(***************************************************************************)
EXTENDS Integers, Sequences, FiniteSets, TLC

VARIABLES
    x, y, angle,            \* car.x, car.y (1/1000 unit), car.angle (1/100 degree)
    speed, steering_angle,  \* car.speed, car.steering_angle (rationals)
    trail,                  \* car.trail: sequence of <<x, y, speed>>
    nupd, hist,             \* history: updates since construction, all samples
    speed_slider,           \* ui.speed_slider: [value, dragging]
    lookahead_slider,       \* ui.lookahead_slider: [value, dragging]
    look_ahead_distance,    \* controller.look_ahead_distance
    lane_center,            \* controller.lane_center
    vision_lane_center,     \* controller.vision.lane_center (<<>> is None)
    steering_error,         \* controller.steering_error
    running, paused,        \* simulation flags
    lap_count, lap_ready, last_start_dist,
    pc,                     \* position in Simulation.run / unit-level phase
    ticks,                  \* history: iterations of the run loop
    mask,                   \* the detector's binary mask at the sampled rows
    ret_estimate,           \* last value returned by process_camera_view
    ret_steering,           \* last value returned by calculate_steering
    ret_speed,              \* last value returned by calculate_speed
    arg_steering, arg_base, \* last arguments of calculate_speed
    cmd                     \* <<steering_input, speed_input>> held by the driver of a Car

carVars == <<x, y, angle, speed, steering_angle, trail, nupd, hist>>
uiVars == <<speed_slider, lookahead_slider>>
ctlVars == <<look_ahead_distance, lane_center, vision_lane_center, steering_error>>
simVars == <<running, paused, lap_count, lap_ready, last_start_dist, ticks>>
ioVars == <<mask, ret_estimate, ret_steering, ret_speed, arg_steering, arg_base, cmd>>
vars == <<carVars, uiVars, ctlVars, simVars, ioVars, pc>>

----------------------------------------------------------------------------
(* Exact rational arithmetic (the real-number reading of Python floats).   *)

Abs(v) == IF v < 0 THEN -v ELSE v
Min(a, b) == IF a < b THEN a ELSE b
IMax(a, b) == IF a < b THEN b ELSE a

RECURSIVE GCD(_, _)
GCD(a, b) == IF b = 0 THEN a ELSE GCD(b, a % b)

Rat(n, d) ==
    LET s == IF d < 0 THEN -1 ELSE 1
        g == GCD(Abs(n), Abs(d))
    IN  <<(s * n) \div g, (s * d) \div g>>

RInt(k) == <<k, 1>>
RNeg(a) == <<-a[1], a[2]>>
RAdd(a, b) ==
    LET g == GCD(a[2], b[2])
    IN  Rat(a[1] * (b[2] \div g) + b[1] * (a[2] \div g), (a[2] \div g) * b[2])
RSub(a, b) == RAdd(a, RNeg(b))
RMul(a, b) ==
    LET g1 == GCD(Abs(a[1]), b[2])
        g2 == GCD(Abs(b[1]), a[2])
    IN  Rat((a[1] \div g1) * (b[1] \div g2), (a[2] \div g2) * (b[2] \div g1))
RDiv(a, b) == RMul(a, IF b[1] < 0 THEN <<-b[2], -b[1]>> ELSE <<b[2], b[1]>>)
RLe(a, b) ==
    LET g == GCD(a[2], b[2])
    IN  a[1] * (b[2] \div g) <= b[1] * (a[2] \div g)
RLt(a, b) ==
    LET g == GCD(a[2], b[2])
    IN  a[1] * (b[2] \div g) < b[1] * (a[2] \div g)
RAbs(a) == <<Abs(a[1]), a[2]>>
RMax(a, b) == IF RLt(a, b) THEN b ELSE a
RMin(a, b) == IF RLt(b, a) THEN b ELSE a

\* integer division truncating toward zero
Div(a, b) == IF a >= 0 THEN a \div b ELSE -((-a) \div b)

\* a rational as fixed point, thousandths
ToMilli(r) == Div(r[1] * 1000, r[2])

----------------------------------------------------------------------------
(* config.py: the constants the other modules take with                    *)
(* `from config import *`                                                  *)

MAX_STEERING_ANGLE == 35
MIN_SPEED == 1
MAX_SPEED == 50
WHEELBASE == 30
WINDOW_WIDTH == 1400
WINDOW_HEIGHT == 900

----------------------------------------------------------------------------
(* Fixed-point trigonometry: angles in hundredths of a degree, values in   *)
(* thousandths (Bhaskara's rational approximation of the sine).            *)

SinPos(a) ==
    LET p == a * (18000 - a)
    IN  (4 * p) \div ((405000000 - p) \div 1000)

SinMilli(a) ==
    LET m == ((a + 18000) % 36000) - 18000
    IN  IF m >= 0 THEN SinPos(m) ELSE -SinPos(-m)

CosMilli(a) == SinMilli(a + 9000)

TanMilli(a) == Div(SinMilli(a) * 1000, CosMilli(a))

\* degrees (rational) as hundredths of a degree
ToCenti(r) == Div(r[1] * 100, r[2])

----------------------------------------------------------------------------
(* car.py: class Car                                                       *)

None == <<>>
max_trail == 150
HalfTurn == 18000                \* 180 degrees
FullTurn == 36000                \* 360 degrees
InitialSpeed == <<5, 2>>
SteeringDeadband == <<1, 10>>

\* np.clip(v, lo, hi)
RClip(v, lo, hi) == RMin(RMax(v, lo), hi)

ClipSteeringUpperOnly(steering_input) ==
    RMin(steering_input, RInt(MAX_STEERING_ANGLE))

ClipSteering(steering_input) ==
    RClip(steering_input, RInt(-MAX_STEERING_ANGLE), RInt(MAX_STEERING_ANGLE))

ClipSpeed(speed_input) == RClip(speed_input, RInt(MIN_SPEED), RInt(MAX_SPEED))

AngleStepNoDeadband(sp, st) ==
    Div(Div(ToMilli(sp) * TanMilli(ToCenti(st)), WHEELBASE) * 573, 100000)

\* np.degrees(angular_velocity), in hundredths of a degree
AngleStep(sp, st) ==
    IF RLt(SteeringDeadband, RAbs(st))
    THEN LET av == Div(ToMilli(sp) * TanMilli(ToCenti(st)), WHEELBASE)  \* micro-rad
         IN  Div(av * 573, 100000)
    ELSE 0

\* HugeHeading stands for the headings of 2^62 degrees and more (1e20, say),
\* where a float64 has a spacing of 1024 or more and a + 360 == a
HugeHeading == 2000000000

\* self.angle += d, in float64
AngleAdd(a, d) == IF Abs(a) >= HugeHeading THEN a ELSE a + d

RECURSIVE WrapDown(_)
WrapDown(a) == IF a > HalfTurn THEN WrapDown(AngleAdd(a, -FullTurn)) ELSE a

RECURSIVE WrapUp(_)
WrapUp(a) == IF a < -HalfTurn THEN WrapUp(AngleAdd(a, FullTurn)) ELSE a

WrapAngleDownOnly(a) == WrapDown(a)

WrapAngle(a) == WrapUp(WrapDown(a))

TrailPushDropNewest(t, sample) ==
    LET t1 == Append(t, sample)
    IN  IF Len(t1) > max_trail THEN SubSeq(t1, 1, max_trail) ELSE t1

TrailPush(t, sample) ==
    LET t1 == Append(t, sample)
    IN  IF Len(t1) > max_trail THEN Tail(t1) ELSE t1

\* Car.__init__(x, y, angle)
CarInit(x0, y0, a0) ==
    /\ x = x0
    /\ y = y0
    /\ angle = a0
    /\ speed = InitialSpeed
    /\ steering_angle = RInt(0)
    /\ trail = <<>>
    /\ nupd = 0
    /\ hist = <<>>

\* Car.update(steering_input, speed_input=None)
CarUpdate(steering_input, speed_input) ==
    LET st == ClipSteering(steering_input)
        sp == IF speed_input # None THEN ClipSpeed(speed_input) ELSE speed
        nx == x + Div(ToMilli(sp) * CosMilli(angle), 1000)
        ny == y + Div(ToMilli(sp) * SinMilli(angle), 1000)
    IN  /\ steering_angle' = st
        /\ speed' = sp
        /\ x' = nx
        /\ y' = ny
        /\ angle' = WrapAngle(AngleAdd(angle, AngleStep(sp, st)))
        /\ trail' = TrailPush(trail, <<nx, ny, sp>>)
        /\ nupd' = nupd + 1
        /\ hist' = Append(hist, <<nx, ny, sp>>)

----------------------------------------------------------------------------
(* controllers.py: VisionSystem.process_camera_view.  The input is the     *)
(* binary mask after thresholding and closing, given at the four sampled   *)
(* rows: mask[i] is the set of columns c with mask[row_i, c] > 0.          *)

cam_width == 480
cam_height == 320
RowPcts == <<8, 6, 4, 3>>                       \* tenths: 0.8, 0.6, 0.4, 0.3
Weights == << <<2, 5>>, <<3, 10>>, <<1, 5>>, <<1, 10>> >>  \* 0.4, 0.3, 0.2, 0.1
NeutralEstimate == <<1, 2>>
MinGreenPixels == 2

SetMin(S) == CHOOSE a \in S : \A b \in S : a <= b
SetMax(S) == CHOOSE a \in S : \A b \in S : a >= b

\* row = int(h * row_pct)
RowIndex(i) == (cam_height * RowPcts[i]) \div 10

RowDetectsOnePixel(row_data) == Cardinality(row_data) >= 1

\* len(green_pixels) >= 2
RowDetects(row_data) == Cardinality(row_data) >= MinGreenPixels

RowCenterNoHalving(row_data) == Rat(SetMin(row_data) + SetMax(row_data), cam_width)

\* center = (left + right) / 2 / w
RowCenter(row_data) == Rat(SetMin(row_data) + SetMax(row_data), 2 * cam_width)

RECURSIVE LaneCenters(_, _)
LaneCenters(m, i) ==
    IF i > Len(RowPcts) THEN <<>>
    ELSE LET rest == LaneCenters(m, i + 1)
         IN  IF RowIndex(i) < 0 \/ RowIndex(i) >= cam_height THEN rest
             ELSE IF RowDetects(m[i]) THEN <<RowCenter(m[i])>> \o rest
             ELSE rest

RECURSIVE SumSeq(_)
SumSeq(ws) == IF ws = <<>> THEN RInt(0) ELSE RAdd(Head(ws), SumSeq(Tail(ws)))

RECURSIVE DotSeq(_, _)
DotSeq(cs, ws) ==
    IF cs = <<>> \/ ws = <<>> THEN RInt(0)
    ELSE RAdd(RMul(Head(cs), Head(ws)), DotSeq(Tail(cs), Tail(ws)))

\* weights = [0.4, 0.3, 0.2, 0.1][:len(lane_centers)]
UsedWeights(cs) == SubSeq(Weights, 1, IF Len(cs) < Len(Weights) THEN Len(cs) ELSE Len(Weights))

FuseCentersNoRenorm(cs) == DotSeq(cs, UsedWeights(cs))

FuseCenters(cs) == RDiv(DotSeq(cs, UsedWeights(cs)), SumSeq(UsedWeights(cs)))

\* the value process_camera_view returns
ProcessCameraView(m) ==
    IF LaneCenters(m, 1) # <<>> THEN FuseCenters(LaneCenters(m, 1)) ELSE NeutralEstimate

\* self.lane_center of the VisionSystem after the call
VisionLaneCenterAfter(m, old) ==
    IF LaneCenters(m, 1) # <<>> THEN FuseCenters(LaneCenters(m, 1)) ELSE old

----------------------------------------------------------------------------
(* controllers.py: VisionPurePursuit.calculate_steering and                *)
(* SpeedController.calculate_speed                                         *)

GAIN_CONSTANT == 3000
MinLookAhead == 1

SteeringErrorFromLeft(lc) == lc

SteeringErrorReversed(lc) == RSub(<<1, 2>>, lc)

SteeringError(lc) == RSub(lc, <<1, 2>>)

SafeLookAhead(la) == RMax(la, RInt(MinLookAhead))

ClipCommandNone(steering) == steering

ClipCommand(steering) ==
    RClip(steering, RInt(-MAX_STEERING_ANGLE), RInt(MAX_STEERING_ANGLE))

\* the value calculate_steering returns for a lane estimate and a look-ahead
CalculateSteering(lc, la) ==
    ClipCommand(RMul(SteeringError(lc), RDiv(RInt(GAIN_CONSTANT), SafeLookAhead(la))))

SteeringFactor(st) ==
    RSub(RInt(1), RMul(RDiv(RAbs(st), RInt(MAX_STEERING_ANGLE)), <<2, 5>>))

CalculateSpeedNoFloor(st, base_speed) == RMul(base_speed, SteeringFactor(st))

CalculateSpeed(st, base_speed) == RMul(base_speed, RMax(SteeringFactor(st), <<1, 2>>))

----------------------------------------------------------------------------
(* track.py: Track.get_start_position (centerline[10] of the top straight, *)
(* heading along the straight)                                             *)

StartX ==
    LET cx == (WINDOW_WIDTH \div 2) * 1000
        w == (WINDOW_WIDTH * 650) \div 2
        r == (WINDOW_HEIGHT * 550) \div 2
        straight_len == w - r
    IN  (cx - straight_len) + (2 * straight_len * 10) \div 80

StartY == (WINDOW_HEIGHT \div 2) * 1000 - (WINDOW_HEIGHT * 550) \div 2

StartAngle == 0

----------------------------------------------------------------------------
(* The Car class on its own: any start heading, any inputs.                *)

MaxUpdates == 3

StartHeadings == {0, 18000, -18000, 17000, -54000}
SteeringInputs == {RInt(-60), RInt(-20), RInt(0), <<1, 10>>, RInt(35)}
SpeedInputs == {None, RInt(0), RInt(20), RInt(60)}

IdleUi ==
    /\ speed_slider = [value |-> RInt(5), dragging |-> FALSE]
    /\ lookahead_slider = [value |-> RInt(60), dragging |-> FALSE]

IdleCtl ==
    /\ look_ahead_distance = RInt(60)
    /\ lane_center = <<1, 2>>
    /\ vision_lane_center = None
    /\ steering_error = RInt(0)

IdleSim ==
    /\ running = TRUE
    /\ paused = FALSE
    /\ lap_count = 0
    /\ lap_ready = FALSE
    /\ last_start_dist = 0
    /\ ticks = 0

IdleIo ==
    /\ mask = <<{}, {}, {}, {}>>
    /\ ret_estimate = None
    /\ ret_steering = None
    /\ ret_speed = None
    /\ arg_steering = None
    /\ arg_base = None
    /\ cmd = None

CarSpecInit ==
    /\ \E a0 \in StartHeadings : CarInit(StartX, StartY, a0)
    /\ IdleUi /\ IdleCtl /\ IdleSim /\ IdleIo
    /\ pc = "car"

CarSpecUpdate ==
    /\ nupd < MaxUpdates
    /\ \E st \in SteeringInputs, sp \in SpeedInputs : CarUpdate(st, sp)
    /\ UNCHANGED <<uiVars, ctlVars, simVars, ioVars, pc>>

CarSpecNext == CarSpecUpdate

SpecCar == CarSpecInit /\ [][CarSpecNext]_vars

(* C1, as stated: after every Car.update the heading lies in the half-open *)
(* interval (-180, 180] degrees, never exactly -180.                       *)
C1_HeadingHalfOpen == nupd > 0 => (angle > -HalfTurn /\ angle <= HalfTurn)

(* C1, amended: after every Car.update the heading lies in the closed      *)
(* interval [-180, 180] degrees; -180 itself is kept (a heading of         *)
(* -180 - 360k is wrapped to -180, and -180 is never wrapped to 180).      *)
C1_HeadingClosed == nupd > 0 => (angle >= -HalfTurn /\ angle <= HalfTurn)

C1_Witness == nupd > 0 /\ angle = -HalfTurn

(* C3: the stored steering_angle lies in                                   *)
(* [-MAX_STEERING_ANGLE, MAX_STEERING_ANGLE] in every state, whatever      *)
(* steering input Car.update was given.                                    *)
C3_SteeringClamped ==
    /\ RLe(RInt(-MAX_STEERING_ANGLE), steering_angle)
    /\ RLe(steering_angle, RInt(MAX_STEERING_ANGLE))

C3_Witness == nupd > 0 /\ steering_angle = RInt(-MAX_STEERING_ANGLE)

----------------------------------------------------------------------------
(* A Car driven for many updates with held inputs, past the trail's        *)
(* capacity.                                                               *)

MaxTrailUpdates == 152

TrailInit ==
    /\ \E a0 \in StartHeadings : CarInit(StartX, StartY, a0)
    /\ IdleUi /\ IdleCtl /\ IdleSim
    /\ mask = <<{}, {}, {}, {}>>
    /\ ret_estimate = None /\ ret_steering = None /\ ret_speed = None
    /\ arg_steering = None /\ arg_base = None
    /\ cmd \in SteeringInputs \X SpeedInputs
    /\ pc = "car"

TrailUpdate ==
    /\ nupd < MaxTrailUpdates
    /\ CarUpdate(cmd[1], cmd[2])
    /\ UNCHANGED <<uiVars, ctlVars, simVars, ioVars, pc>>

TrailNext == TrailUpdate

SpecTrail == TrailInit /\ [][TrailNext]_vars

(* C4: after n updates since construction the trail has exactly            *)
(* min(n, 150) entries, never more than 150, and they are the (x, y,       *)
(* speed) samples of the most recent min(n, 150) updates, oldest first.    *)
C4_TrailRecent ==
    /\ Len(trail) = Min(nupd, 150)
    /\ Len(trail) <= 150
    /\ Len(hist) = nupd
    /\ trail = SubSeq(hist, nupd - Len(trail) + 1, nupd)

C4_Witness == nupd > 150 /\ Len(trail) = 150 /\ trail[1] # hist[1]

\* the held steering input, once clamped, is within the dead band
C12_Straight == RLe(RAbs(ClipSteering(cmd[1])), SteeringDeadband)

\* the displacement of one update at speed sp along heading a
C12_StepX(sp, a) == Div(ToMilli(sp) * CosMilli(a), 1000)
C12_StepY(sp, a) == Div(ToMilli(sp) * SinMilli(a), 1000)

(* C12, as stated: with a steering input of clamped magnitude at most 0.1  *)
(* degrees every Car.update call leaves the heading unchanged.             *)
C12_HeadingUnchanged == [][C12_Straight => angle' = angle]_vars

(* C12, amended: with a steering input of clamped magnitude at most 0.1    *)
(* degrees every Car.update call leaves a heading within [-180, 180]       *)
(* unchanged and changes any other heading only by a multiple of 360       *)
(* degrees (the wrap of the first update); it advances (x, y) by the new   *)
(* speed times (cos heading, sin heading); so after any number of updates  *)
(* the car lies on the ray from its initial position along its initial     *)
(* heading.                                                                *)
C12_StraightRay ==
    [][C12_Straight =>
          /\ (angle >= -HalfTurn /\ angle <= HalfTurn) => angle' = angle
          /\ (angle' - angle) % FullTurn = 0
          /\ x' = x + C12_StepX(speed', angle)
          /\ y' = y + C12_StepY(speed', angle)
          /\ x' = StartX + nupd' * C12_StepX(speed', angle')
          /\ y' = StartY + nupd' * C12_StepY(speed', angle')
          /\ RLe(RInt(0), speed')]_vars

C12_Witness ==
    /\ C12_Straight
    /\ cmd[1] = <<1, 10>>
    /\ nupd >= 150
    /\ angle = 17000
    /\ x < StartX /\ y > StartY

----------------------------------------------------------------------------
(* The controller on its own: VisionPurePursuit(look_ahead_distance) is    *)
(* built with any look-ahead, the camera sees any mask, and                *)
(* calculate_steering is called on it.                                     *)

RowPatterns == { {}, {100}, {240}, {96, 384}, {200, 240, 280}, {0, 96}, {384, 479} }
Masks == { <<a, b, c, d>> : a \in RowPatterns, b \in RowPatterns,
                            c \in RowPatterns, d \in RowPatterns }
LookAheads == { RInt(-5), RInt(0), <<1, 2>>, RInt(1), RInt(20), RInt(60), RInt(150) }

\* controller.calculate_steering(car, surface), the camera seeing mask m
\* (camera_frame, processed_frame and viz_lookahead_point are display data
\* and are left out)
DoCalculateSteering(m) ==
    LET est == ProcessCameraView(m)
    IN  /\ ret_estimate' = est
        /\ vision_lane_center' = VisionLaneCenterAfter(m, vision_lane_center)
        /\ lane_center' = est
        /\ steering_error' = SteeringError(est)
        /\ ret_steering' = CalculateSteering(est, look_ahead_distance)
        /\ UNCHANGED look_ahead_distance

VisionInit ==
    /\ CarInit(StartX, StartY, StartAngle)
    /\ IdleUi /\ IdleSim
    /\ mask \in Masks
    /\ ret_estimate = None /\ ret_steering = None
    /\ ret_speed = None /\ arg_steering = None /\ arg_base = None /\ cmd = None
    /\ look_ahead_distance \in LookAheads
    /\ lane_center = NeutralEstimate
    /\ vision_lane_center = None
    /\ steering_error = RInt(0)
    /\ pc = "init"

VisionCalculateSteering ==
    /\ pc = "init"
    /\ DoCalculateSteering(mask)
    /\ pc' = "calculate_steering"
    /\ UNCHANGED <<carVars, uiVars, simVars, mask, ret_speed, arg_steering, arg_base, cmd>>

VisionNext == VisionCalculateSteering

SpecVision == VisionInit /\ [][VisionNext]_vars

Called == pc = "calculate_steering"
SampledRows == 1..4
NoRowDetects == \A i \in SampledRows : Cardinality(mask[i]) < 2

(* C5: calculate_steering returns a finite value within                    *)
(* [-MAX_STEERING_ANGLE, MAX_STEERING_ANGLE] for every lane estimate and   *)
(* every look-ahead, zero and negative ones included: the divisor is the   *)
(* look-ahead floored to 1.0, so it is never zero.                         *)
C5_SteeringBounded ==
    Called =>
        /\ ret_steering[2] > 0
        /\ RLe(RInt(-MAX_STEERING_ANGLE), ret_steering)
        /\ RLe(ret_steering, RInt(MAX_STEERING_ANGLE))
        /\ RLe(RInt(1), SafeLookAhead(look_ahead_distance))
        /\ (RLe(look_ahead_distance, RInt(1)) =>
               ret_steering = CalculateSteering(ret_estimate, RInt(1)))

C5_Witness ==
    /\ Called
    /\ look_ahead_distance = RInt(0)
    /\ RLt(NeutralEstimate, ret_estimate)
    /\ ret_steering = RInt(MAX_STEERING_ANGLE)

(* C7: when no sampled row holds at least 2 masked pixels,                 *)
(* process_camera_view returns exactly 0.5; a row with exactly one masked  *)
(* pixel counts as no detection.                                           *)
C7_NeutralWhenNoRow == (Called /\ NoRowDetects) => ret_estimate = <<1, 2>>

C7_Witness ==
    /\ Called
    /\ NoRowDetects
    /\ \E i \in SampledRows : mask[i] = {100}
    /\ ret_estimate = <<1, 2>>

(* C8: the value process_camera_view returns is always in [0, 1], for      *)
(* every mask and every subset of the sampled rows that yield a centre.    *)
C8_EstimateInUnitInterval ==
    Called => (RLe(RInt(0), ret_estimate) /\ RLe(ret_estimate, RInt(1)))

C8_Witness ==
    /\ Called
    /\ Cardinality({i \in SampledRows : Cardinality(mask[i]) >= 2}) = 1
    /\ RLt(<<4, 5>>, ret_estimate)

\* the claim's reading of the fusion, from the mask alone
C9_Detecting == {i \in SampledRows : Cardinality(mask[i]) >= 2}
C9_Centre(i) == Rat(SetMin(mask[i]) + SetMax(mask[i]), 960)
C9_Rank(i) == Cardinality({j \in C9_Detecting : j <= i})
C9_Weight(r) == Rat(5 - r, 10)

RECURSIVE C9_Sum(_, _)
C9_Sum(f(_), S) ==
    IF S = {} THEN RInt(0)
    ELSE LET i == CHOOSE j \in S : TRUE
         IN  RAdd(f(i), C9_Sum(f, S \ {i}))

C9_Term(i) == RMul(C9_Centre(i), C9_Weight(C9_Rank(i)))
C9_UsedWeight(i) == C9_Weight(C9_Rank(i))

(* C9: when k >= 1 sampled rows yield a centre, the estimate is            *)
(* sum(centre_i * weight_i) / sum(used weights), the used weights being    *)
(* the first k of (0.4, 0.3, 0.2, 0.1) given to the detecting rows in      *)
(* near-to-far order; so the estimate lies between the smallest and the    *)
(* largest detected centre.                                                *)
C9_WeightedMean ==
    (Called /\ C9_Detecting # {}) =>
        /\ ret_estimate = RDiv(C9_Sum(C9_Term, C9_Detecting),
                               C9_Sum(C9_UsedWeight, C9_Detecting))
        /\ \E i \in C9_Detecting : RLe(C9_Centre(i), ret_estimate)
        /\ \E i \in C9_Detecting : RLe(ret_estimate, C9_Centre(i))

C9_Witness ==
    /\ Called
    /\ Cardinality(C9_Detecting) = 2
    /\ \E i \in C9_Detecting : RLt(C9_Centre(i), ret_estimate)
    /\ \E i \in C9_Detecting : RLt(ret_estimate, C9_Centre(i))

C10_Symmetric(row_data) == \A c \in row_data : (480 - c) \in row_data

(* C10: for a 480-wide image whose mask is symmetric about column 240 at   *)
(* all four sampled rows, process_camera_view returns 0.5; with            *)
(* look-ahead 60 the steering computed from it is 0.0, and                 *)
(* calculate_speed(0.0, 5.0) is 5.0.                                       *)
C10_CentredLane ==
    (Called /\ \A i \in SampledRows : C10_Symmetric(mask[i])) =>
        /\ ret_estimate = <<1, 2>>
        /\ (look_ahead_distance = RInt(60) =>
               /\ ret_steering = RInt(0)
               /\ CalculateSpeed(ret_steering, RInt(5)) = RInt(5))

C10_Witness ==
    /\ Called
    /\ \A i \in SampledRows : C10_Symmetric(mask[i]) /\ Cardinality(mask[i]) >= 2
    /\ mask[1] # mask[2]
    /\ look_ahead_distance = RInt(60)
    /\ ret_steering = RInt(0)

\* the sign of a rational
Sign(r) == IF r[1] > 0 THEN 1 ELSE IF r[1] < 0 THEN -1 ELSE 0

\* row i holds a masked pixel, and the midpoint of its leftmost and its
\* rightmost masked pixel is left (right) of the image centre
C11_MidLeft(i) == mask[i] # {} /\ SetMin(mask[i]) + SetMax(mask[i]) < cam_width
C11_MidRight(i) == mask[i] # {} /\ SetMin(mask[i]) + SetMax(mask[i]) > cam_width

(* C11, as stated: if at every sampled row the midpoint of the leftmost    *)
(* and rightmost masked pixel is left of the image centre, the estimate is *)
(* < 0.5 and the steering <= 0; if right, > 0.5 and >= 0; the steering     *)
(* always has the sign of (estimate - 0.5).                                *)
C11_SignAsStated ==
    Called =>
        /\ (\A i \in SampledRows : C11_MidLeft(i)) =>
               (RLt(ret_estimate, <<1, 2>>) /\ RLe(ret_steering, RInt(0)))
        /\ (\A i \in SampledRows : C11_MidRight(i)) =>
               (RLt(<<1, 2>>, ret_estimate) /\ RLe(RInt(0), ret_steering))
        /\ Sign(ret_steering) = Sign(RSub(ret_estimate, <<1, 2>>))

(* C11, amended: if at least one sampled row holds 2 or more masked pixels *)
(* and at every such row the midpoint of the leftmost and rightmost masked *)
(* pixel is left of the image centre, the estimate is < 0.5 and the        *)
(* steering < 0; if right, > 0.5 and > 0; rows with fewer than 2 masked    *)
(* pixels do not count; the steering always has the sign of                *)
(* (estimate - 0.5), for every look-ahead.                                 *)
C11_SignFollowsLane ==
    Called =>
        /\ (C9_Detecting # {} /\ \A i \in C9_Detecting : C11_MidLeft(i)) =>
               (RLt(ret_estimate, <<1, 2>>) /\ RLt(ret_steering, RInt(0)))
        /\ (C9_Detecting # {} /\ \A i \in C9_Detecting : C11_MidRight(i)) =>
               (RLt(<<1, 2>>, ret_estimate) /\ RLt(RInt(0), ret_steering))
        /\ Sign(ret_steering) = Sign(RSub(ret_estimate, <<1, 2>>))

C11_Witness ==
    /\ Called
    /\ C9_Detecting # {} /\ C9_Detecting # SampledRows
    /\ \A i \in C9_Detecting : C11_MidLeft(i)
    /\ RLt(look_ahead_distance, RInt(0))
    /\ RLt(ret_estimate, <<1, 2>>)
    /\ RLt(ret_steering, RInt(0))

----------------------------------------------------------------------------
(* The speed law on its own: any steering angle, also beyond the clamp.    *)

MaxHalfDegrees == 100
SteeringArgs == { Rat(k, 2) : k \in -MaxHalfDegrees..MaxHalfDegrees }
BaseSpeeds == { RInt(1), <<5, 2>>, RInt(5), <<4073, 160>>, RInt(50) }

SpeedInit ==
    /\ CarInit(StartX, StartY, StartAngle)
    /\ IdleUi /\ IdleCtl /\ IdleSim
    /\ mask = <<{}, {}, {}, {}>>
    /\ ret_estimate = None /\ ret_steering = None /\ ret_speed = None /\ cmd = None
    /\ arg_steering \in SteeringArgs
    /\ arg_base \in BaseSpeeds
    /\ pc = "init"

SpeedCalculateSpeed ==
    /\ pc = "init"
    /\ ret_speed' = CalculateSpeed(arg_steering, arg_base)
    /\ pc' = "calculate_speed"
    /\ UNCHANGED <<carVars, uiVars, ctlVars, simVars, mask, ret_estimate,
                   ret_steering, arg_steering, arg_base, cmd>>

SpeedNext == SpeedCalculateSpeed

SpecSpeed == SpeedInit /\ [][SpeedNext]_vars

(* C6: for a fixed base_speed, calculate_speed is non-increasing as        *)
(* |steering_angle| grows and never drops below 0.5 * base_speed, for      *)
(* every steering angle, also beyond MAX_STEERING_ANGLE.                   *)
C6_SpeedLaw ==
    pc = "calculate_speed" =>
        /\ RLe(RMul(<<1, 2>>, arg_base), ret_speed)
        /\ \A st2 \in SteeringArgs :
              RLe(RAbs(arg_steering), RAbs(st2)) =>
                  RLe(CalculateSpeed(st2, arg_base), ret_speed)

C6_Witness ==
    /\ pc = "calculate_speed"
    /\ RLt(RInt(MAX_STEERING_ANGLE), RAbs(arg_steering))
    /\ ret_speed = RMul(<<1, 2>>, arg_base)

----------------------------------------------------------------------------
(* main.py: Slider                                                         *)

LOOK_AHEAD_DISTANCE == 60
SliderOffset == 200
SliderWidth == 160
SliderHeight == 24
SliderPad == 5
SpeedSliderY == 250
LookSliderY == 320
SpeedSliderMin == 1
SpeedSliderMax == 50
SpeedSliderInitial == 5
LookSliderMin == 20
LookSliderMax == 150
LookSliderInitial == 60

SliderX == WINDOW_WIDTH - SliderOffset

\* Slider._update_value(mx)
SliderUpdateValue(s, mx, lo, hi) ==
    LET cmx == IMax(SliderX, Min(mx, SliderX + SliderWidth))
        ratio == Rat(cmx - SliderX, SliderWidth)
    IN  [s EXCEPT !.value = RAdd(RInt(lo), RMul(ratio, RInt(hi - lo)))]

\* Slider.handle_event(event), for the slider at height sy
SliderHandleEvent(s, e, sy, lo, hi) ==
    IF e.type = "MOUSEBUTTONDOWN"
    THEN IF /\ SliderX <= e.mx /\ e.mx <= SliderX + SliderWidth
            /\ sy - SliderPad <= e.my /\ e.my <= sy + SliderHeight + SliderPad
         THEN SliderUpdateValue([s EXCEPT !.dragging = TRUE], e.mx, lo, hi)
         ELSE s
    ELSE IF e.type = "MOUSEBUTTONUP" THEN [s EXCEPT !.dragging = FALSE]
    ELSE IF e.type = "MOUSEMOTION" /\ s.dragging
         THEN SliderUpdateValue(s, e.mx, lo, hi)
    ELSE s

----------------------------------------------------------------------------
(* main.py: Simulation                                                     *)

Event(t, k, mx, my) == [type |-> t, key |-> k, mx |-> mx, my |-> my]

\* one pass of the for loop of handle_events over the event e; r.reset
\* records that reset() ran (a new Car, lap state cleared)
HandleOneEvent(r, e) ==
    LET r1 == [r EXCEPT !.running = IF e.type = "QUIT" THEN FALSE ELSE @,
                        !.ss = SliderHandleEvent(@, e, SpeedSliderY,
                                                 SpeedSliderMin, SpeedSliderMax),
                        !.ls = SliderHandleEvent(@, e, LookSliderY,
                                                 LookSliderMin, LookSliderMax)]
    IN  IF e.type = "KEYDOWN"
        THEN IF e.key = "ESCAPE" THEN [r1 EXCEPT !.running = FALSE]
             ELSE IF e.key = "SPACE" THEN [r1 EXCEPT !.paused = ~@]
             ELSE IF e.key = "r" THEN [r1 EXCEPT !.reset = TRUE]
             ELSE r1
        ELSE r1

RECURSIVE ProcessEvents(_, _)
ProcessEvents(r, evs) ==
    IF evs = <<>> THEN r ELSE ProcessEvents(HandleOneEvent(r, Head(evs)), Tail(evs))

\* integer square root, by bisection on lo..hi
RECURSIVE ISqrtIn(_, _, _)
ISqrtIn(v, lo, hi) ==
    IF lo >= hi THEN lo
    ELSE LET mid == (lo + hi + 1) \div 2
         IN  IF mid * mid <= v THEN ISqrtIn(v, mid, hi) ELSE ISqrtIn(v, lo, mid - 1)

\* (car.x - start_x)**2 + (car.y - start_y)**2, in hundredths of a square unit
DistSqToStart(cx, cy) ==
    LET dx == Div(cx - StartX, 100)
        dy == Div(cy - StartY, 100)
    IN  dx * dx + dy * dy

LapFar == 400
LapNear == 60

LapArmedAlways(ready, d2) == TRUE

\* if dist_to_start > 400: self.lap_ready = True
LapArmed(ready, d2) == ready \/ d2 > LapFar * LapFar * 100

\* Simulation.__init__
SimInit ==
    /\ CarInit(StartX, StartY, StartAngle)
    /\ speed_slider = [value |-> RInt(SpeedSliderInitial), dragging |-> FALSE]
    /\ lookahead_slider = [value |-> RInt(LookSliderInitial), dragging |-> FALSE]
    /\ look_ahead_distance = RInt(LOOK_AHEAD_DISTANCE)
    /\ lane_center = NeutralEstimate
    /\ vision_lane_center = None
    /\ steering_error = RInt(0)
    /\ running = TRUE
    /\ paused = FALSE
    /\ lap_count = 0
    /\ lap_ready = FALSE
    /\ last_start_dist = 0
    /\ ticks = 0
    /\ IdleIo
    /\ pc = "loop"

AppliedSpeedKept(car_speed, slider) == car_speed

\* self.car.speed = self.ui.speed_slider.value
AppliedSpeed(car_speed, slider) == slider.value

DoResetCarOnly ==
    /\ x' = StartX /\ y' = StartY /\ angle' = StartAngle
    /\ steering_angle' = RInt(0)
    /\ trail' = <<>> /\ nupd' = 0 /\ hist' = <<>>
    /\ UNCHANGED <<lap_count, lap_ready, last_start_dist>>

\* Simulation.reset: a new Car at the start pose, the lap state cleared
\* (the new car's speed is overwritten at the end of handle_events)
DoReset ==
    /\ x' = StartX /\ y' = StartY /\ angle' = StartAngle
    /\ steering_angle' = RInt(0)
    /\ trail' = <<>> /\ nupd' = 0 /\ hist' = <<>>
    /\ lap_count' = 0 /\ lap_ready' = FALSE /\ last_start_dist' = 0

\* Simulation.handle_events, the event queue holding evs
DoHandleEvents(evs) ==
    LET r == ProcessEvents([running |-> running, paused |-> paused,
                            ss |-> speed_slider, ls |-> lookahead_slider,
                            reset |-> FALSE], evs)
    IN  /\ running' = r.running
        /\ paused' = r.paused
        /\ speed_slider' = r.ss
        /\ lookahead_slider' = r.ls
        /\ IF r.reset
           THEN DoReset
           ELSE UNCHANGED <<x, y, angle, steering_angle, trail, nupd, hist,
                            lap_count, lap_ready, last_start_dist>>
        /\ speed' = AppliedSpeed(speed, r.ss)
        /\ look_ahead_distance' = r.ls.value

\* Simulation.update, not paused, the camera seeing mask m
DoUpdate(m) ==
    LET steering == CalculateSteering(ProcessCameraView(m), look_ahead_distance)
        sp == CalculateSpeed(steering, speed)
    IN  /\ DoCalculateSteering(m)
        /\ mask' = m
        /\ arg_steering' = steering
        /\ arg_base' = speed
        /\ ret_speed' = sp
        /\ CarUpdate(steering, sp)
        /\ LET d2 == DistSqToStart(x', y')
               ready == LapArmed(lap_ready, d2)
               lapped == ready /\ d2 < LapNear * LapNear * 100
           IN  /\ lap_count' = IF lapped THEN lap_count + 1 ELSE lap_count
               /\ lap_ready' = IF lapped THEN FALSE ELSE ready
               /\ last_start_dist' = ISqrtIn(d2, 0, 40000)

----------------------------------------------------------------------------
(* The run loop: while self.running: handle_events(); update(); render().  *)

MaxTicks == 3

KeyEvents == { Event("QUIT", "", 0, 0), Event("KEYDOWN", "ESCAPE", 0, 0),
               Event("KEYDOWN", "SPACE", 0, 0), Event("KEYDOWN", "r", 0, 0),
               Event("KEYDOWN", "a", 0, 0) }
MouseEvents == { Event("MOUSEBUTTONDOWN", "", SliderX, SpeedSliderY + 12),
                 Event("MOUSEBUTTONDOWN", "", SliderX + 40, LookSliderY + 12),
                 Event("MOUSEBUTTONDOWN", "", SliderX + 80, 100),
                 Event("MOUSEBUTTONUP", "", 0, 0),
                 Event("MOUSEMOTION", "", SliderX + 80, 100),
                 Event("MOUSEMOTION", "", SliderX + 300, 100) }
EventBatches ==
    {<<>>} \cup { <<e>> : e \in KeyEvents \cup MouseEvents }
           \cup { <<Event("KEYDOWN", "r", 0, 0), Event("KEYDOWN", "SPACE", 0, 0)>>,
                  <<Event("MOUSEBUTTONDOWN", "", SliderX + 160, SpeedSliderY),
                    Event("MOUSEMOTION", "", SliderX - 50, 0)>> }

SimMasks == { <<{}, {100}, {}, {}>>,
              <<{96, 384}, {200, 240, 280}, {96, 384}, {200, 240, 280}>>,
              <<{0, 96}, {0, 96}, {}, {96, 384}>>,
              <<{}, {384, 479}, {200, 240, 280}, {384, 479}>> }

HandleEvents ==
    /\ pc = "loop"
    /\ running
    /\ ticks < MaxTicks
    /\ \E evs \in EventBatches : DoHandleEvents(evs)
    /\ pc' = "update"
    /\ UNCHANGED <<lane_center, vision_lane_center, steering_error, ticks, ioVars>>

UpdatePausedDrives ==
    /\ pc = "update"
    /\ paused
    /\ \E m \in SimMasks : DoUpdate(m)
    /\ pc' = "render"
    /\ UNCHANGED <<uiVars, running, paused, ticks, cmd>>

UpdatePaused ==
    /\ pc = "update"
    /\ paused
    /\ pc' = "render"
    /\ UNCHANGED <<carVars, uiVars, ctlVars, simVars, ioVars>>

Update ==
    /\ pc = "update"
    /\ ~paused
    /\ \E m \in SimMasks : DoUpdate(m)
    /\ pc' = "render"
    /\ UNCHANGED <<uiVars, running, paused, ticks, cmd>>

RenderNormalisesHeading ==
    /\ pc = "render"
    /\ pc' = "loop"
    /\ ticks' = ticks + 1
    /\ angle' = angle % FullTurn
    /\ UNCHANGED <<x, y, speed, steering_angle, trail, nupd, hist, uiVars, ctlVars,
                   running, paused, lap_count, lap_ready, last_start_dist, ioVars>>

Render ==
    /\ pc = "render"
    /\ pc' = "loop"
    /\ ticks' = ticks + 1
    /\ UNCHANGED <<carVars, uiVars, ctlVars, running, paused, lap_count,
                   lap_ready, last_start_dist, ioVars>>

Exit ==
    /\ pc = "loop"
    /\ ~running
    /\ pc' = "exit"
    /\ UNCHANGED <<carVars, uiVars, ctlVars, simVars, ioVars>>

Next == HandleEvents \/ UpdatePaused \/ Update \/ Render \/ Exit

Spec == SimInit /\ [][Next]_vars

----------------------------------------------------------------------------
(* The run loop driven round a lap: the camera view is held (cmd), so the  *)
(* car drives a circle through the start; the user may drag the speed      *)
(* slider to its maximum before the first frame and afterwards press r or  *)
(* SPACE or close the window at any frame.                                 *)

MaxLapTicks == 60

LapMasks == { <<{384, 479}, {96, 384}, {96, 384}, {96, 384}>>,
              <<{384, 479}, {384, 479}, {384, 479}, {384, 479}>> }

LapBatches(t) ==
    IF t = 0
    THEN { <<>>, <<Event("MOUSEBUTTONDOWN", "", SliderX + SliderWidth, SpeedSliderY)>> }
    ELSE { <<>>, <<Event("KEYDOWN", "r", 0, 0)>>, <<Event("KEYDOWN", "SPACE", 0, 0)>>,
           <<Event("QUIT", "", 0, 0)>> }

LapInit ==
    /\ CarInit(StartX, StartY, StartAngle)
    /\ speed_slider = [value |-> RInt(SpeedSliderInitial), dragging |-> FALSE]
    /\ lookahead_slider = [value |-> RInt(LookSliderInitial), dragging |-> FALSE]
    /\ look_ahead_distance = RInt(LOOK_AHEAD_DISTANCE)
    /\ lane_center = NeutralEstimate
    /\ vision_lane_center = None
    /\ steering_error = RInt(0)
    /\ IdleSim
    /\ mask = <<{}, {}, {}, {}>>
    /\ ret_estimate = None /\ ret_steering = None /\ ret_speed = None
    /\ arg_steering = None /\ arg_base = None
    /\ cmd \in LapMasks
    /\ pc = "loop"

LapHandleEvents ==
    /\ pc = "loop"
    /\ running
    /\ ticks < MaxLapTicks
    /\ \E evs \in LapBatches(ticks) : DoHandleEvents(evs)
    /\ pc' = "update"
    /\ UNCHANGED <<lane_center, vision_lane_center, steering_error, ticks, ioVars>>

LapUpdate ==
    /\ pc = "update"
    /\ ~paused
    /\ DoUpdate(cmd)
    /\ pc' = "render"
    /\ UNCHANGED <<uiVars, running, paused, ticks, cmd>>

LapNext == LapHandleEvents \/ UpdatePaused \/ LapUpdate \/ Render \/ Exit

SpecLap == LapInit /\ [][LapNext]_vars

\* the event queue evs holds a press of the r key
ResetKey(evs) == \E i \in 1..Len(evs) : evs[i].type = "KEYDOWN" /\ evs[i].key = "r"

\* this step is a handle_events in which reset() ran
ResetRan ==
    /\ pc = "loop"
    /\ pc' = "update"
    /\ \E evs \in EventBatches \cup LapBatches(ticks) :
          ResetKey(evs) /\ DoHandleEvents(evs)

(* C13: after Simulation.reset, from any reachable state, the car is at    *)
(* the track's start pose (x, y, heading), its trail is empty, its         *)
(* steering angle is 0, and the lap count is 0 with lap_ready false.       *)
C13_AfterReset ==
    [][ResetRan =>
          /\ x' = StartX /\ y' = StartY /\ angle' = StartAngle
          /\ trail' = <<>>
          /\ steering_angle' = RInt(0)
          /\ lap_count' = 0
          /\ lap_ready' = FALSE]_vars

C13_Witness ==
    /\ pc = "update"
    /\ ticks >= 29
    /\ nupd = 0
    /\ speed = RInt(SpeedSliderMax)
    /\ x = StartX /\ y = StartY /\ angle = StartAngle
    /\ trail = <<>>
    /\ lap_count = 0 /\ ~lap_ready

\* this step is a call of Car.update
CarUpdateRan == pc = "update" /\ nupd' = nupd + 1

\* this step is a handle_events
HandleEventsRan == pc = "loop" /\ pc' = "update"

(* C14, as stated: x, y, heading, speed and steering angle of an existing  *)
(* car are changed only by Car.update (reset replaces the car).            *)
C14_OnlyUpdateWrites ==
    [][(x' # x \/ y' # y \/ angle' # angle \/ speed' # speed
            \/ steering_angle' # steering_angle)
          => (CarUpdateRan \/ ResetRan)]_vars

(* C14, amended: x, y, heading and steering angle of an existing car are   *)
(* changed only by Car.update; speed is changed by Car.update and by       *)
(* handle_events, which stores the speed slider's value in it; no other    *)
(* step (paused update, rendering, exit) writes any of the five.           *)
C14_CarWrites ==
    [][/\ (x' # x \/ y' # y \/ angle' # angle \/ steering_angle' # steering_angle)
          => (CarUpdateRan \/ ResetRan)
       /\ speed' # speed => (CarUpdateRan \/ HandleEventsRan)
       /\ HandleEventsRan => speed' = speed_slider'.value]_vars

C14_Witness ==
    /\ pc = "update"
    /\ ticks = 0 /\ nupd = 0
    /\ speed = RInt(SpeedSliderMin)
    /\ speed # InitialSpeed
    /\ x = StartX /\ y = StartY /\ angle = StartAngle

----------------------------------------------------------------------------
(* controllers.py: VisionSystem.get_camera_pov and process_frame on their  *)
(* own.  cmd holds the call: the car pose (units, hundredths of a degree)  *)
(* and scene, the mask of what the trapezoid in front of that pose shows.  *)
(* A coordinate is <<0, v>>, the value v, or Beyond, a value of 2^36,      *)
(* where the float32 of src_points absorbs every offset of the trapezoid.  *)

near_dist == 20
far_dist == 800
near_half_width == 80
far_half_width == 1000

Beyond == <<1, 0>>
Coord(v) == <<0, v>>

\* np.float32(c + off)
F32Add(c, off) == IF c = Beyond THEN Beyond ELSE Coord(c[2] + off)

\* dist * cos_h + side * cos_perp and dist * sin_h + side * sin_perp
OffsetX(a, dist, side) == Div(dist * CosMilli(a) + side * CosMilli(a + 9000), 1000)
OffsetY(a, dist, side) == Div(dist * SinMilli(a) + side * SinMilli(a + 9000), 1000)

\* src_points: front-left, front-right, far-right, far-left
SrcPoints(cx, cy, a) ==
    << <<F32Add(cx, OffsetX(a, near_dist, -near_half_width)),
         F32Add(cy, OffsetY(a, near_dist, -near_half_width))>>,
       <<F32Add(cx, OffsetX(a, near_dist, near_half_width)),
         F32Add(cy, OffsetY(a, near_dist, near_half_width))>>,
       <<F32Add(cx, OffsetX(a, far_dist, far_half_width)),
         F32Add(cy, OffsetY(a, far_dist, far_half_width))>>,
       <<F32Add(cx, OffsetX(a, far_dist, -far_half_width)),
         F32Add(cy, OffsetY(a, far_dist, -far_half_width))>> >>

\* three of the four points on one line: no perspective transform exists
Degenerate(pts) ==
    \/ \A i \in 1..4 : pts[i][1] = pts[1][1]
    \/ \A i \in 1..4 : pts[i][2] = pts[1][2]
    \/ /\ \A i \in 1..4 : pts[i][1] # Beyond /\ pts[i][2] # Beyond
       /\ \E i, j, k \in 1..4 :
             /\ i < j /\ j < k
             /\ (pts[j][1][2] - pts[i][1][2]) * (pts[k][2][2] - pts[i][2][2])
                   = (pts[k][1][2] - pts[i][1][2]) * (pts[j][2][2] - pts[i][2][2])

BlankFrame == <<{}, {}, {}, {}>>

CameraPoses ==
    [car_x : {Coord(StartX \div 1000), Beyond},
     car_y : {Coord(StartY \div 1000), Beyond},
     car_angle : {0, 4500, 9000, -18000, 13453}]
CameraScenes == SimMasks \cup {BlankFrame}

CameraInit ==
    /\ CarInit(StartX, StartY, StartAngle)
    /\ IdleUi /\ IdleCtl /\ IdleSim
    /\ mask = BlankFrame
    /\ ret_estimate = None /\ ret_steering = None /\ ret_speed = None
    /\ arg_steering = None /\ arg_base = None
    /\ cmd \in [pose : CameraPoses, scene : CameraScenes]
    /\ pc = "init"

CameraDegenerate == Degenerate(SrcPoints(cmd.pose.car_x, cmd.pose.car_y, cmd.pose.car_angle))

\* process_frame: getPerspectiveTransform has a solution, the warp shows
\* the scene
CameraProcessFrame ==
    /\ pc = "init"
    /\ ~CameraDegenerate
    /\ mask' = cmd.scene
    /\ DoCalculateSteering(cmd.scene)
    /\ pc' = "calculate_steering"
    /\ UNCHANGED <<carVars, uiVars, simVars, ret_speed, arg_steering, arg_base, cmd>>

\* process_frame on degenerate source points: get_camera_pov has no guard,
\* so cv2 decides, and what it warps with is not a transform of the scene:
\* any frame may come back
CameraDegenerateReturns ==
    /\ pc = "init"
    /\ CameraDegenerate
    /\ \E m \in CameraScenes : mask' = m /\ DoCalculateSteering(m)
    /\ pc' = "calculate_steering"
    /\ UNCHANGED <<carVars, uiVars, simVars, ret_speed, arg_steering, arg_base, cmd>>

\* ... or cv2.error leaves get_camera_pov, process_frame,
\* calculate_steering and update
CameraDegenerateRaises ==
    /\ pc = "init"
    /\ CameraDegenerate
    /\ pc' = "raised"
    /\ UNCHANGED <<carVars, uiVars, ctlVars, simVars, ioVars>>

CameraNext == CameraProcessFrame \/ CameraDegenerateReturns \/ CameraDegenerateRaises

SpecCamera == CameraInit /\ [][CameraNext]_vars

(* C15: when the four source points of the projection are degenerate,      *)
(* get_camera_pov returns a blank forward image instead of raising, and    *)
(* the tick proceeds through the no-signal path to the estimate 0.5.       *)
C15_DegenerateIsBlank ==
    (pc # "init" /\ CameraDegenerate) =>
        /\ pc # "raised"
        /\ mask = BlankFrame
        /\ ret_estimate = NeutralEstimate

\* this step is a Simulation.update that is not paused
UpdateRan == pc = "update" /\ ~paused

(* C16: in every un-paused tick the base speed passed to calculate_speed   *)
(* is the speed slider's current value, so the speed Car.update stores is  *)
(* clamp(slider value * speed factor, MIN_SPEED, MAX_SPEED), the factor    *)
(* being max(1 - 0.4 |steering| / MAX_STEERING_ANGLE, 0.5) of this tick's  *)
(* steering alone: the slow-down does not compound from tick to tick.      *)
C16_BaseIsSlider ==
    [][UpdateRan =>
          /\ arg_base' = speed_slider.value
          /\ ret_speed' = RMul(speed_slider.value,
                               RMax(SteeringFactor(ret_steering'), <<1, 2>>))
          /\ speed' = RClip(ret_speed', RInt(MIN_SPEED), RInt(MAX_SPEED))]_vars

C16_Witness ==
    /\ pc = "render"
    /\ Len(hist) >= 2
    /\ hist[Len(hist) - 1][3] = speed
    /\ RLt(speed, speed_slider.value)
    /\ RLt(RInt(MIN_SPEED), speed)
    /\ speed = RMul(speed_slider.value, SteeringFactor(ret_steering))

\* the event queue evs holds a press of the SPACE key
SpaceKey(evs) == \E i \in 1..Len(evs) : evs[i].type = "KEYDOWN" /\ evs[i].key = "SPACE"

\* this step is a handle_events that handled a SPACE key
SpaceHandled ==
    /\ pc = "loop"
    /\ pc' = "update"
    /\ \E evs \in EventBatches \cup LapBatches(ticks) :
          SpaceKey(evs) /\ DoHandleEvents(evs)

(* C17, as stated: while the simulation is paused, position, heading,      *)
(* steering angle, trail, lane estimate, lap count and lap_ready stay as   *)
(* they were when pause began, over any number of paused ticks.            *)
C17_PausedFreezes ==
    [][(paused /\ paused') =>
          UNCHANGED <<x, y, angle, steering_angle, trail, lane_center,
                      lap_count, lap_ready>>]_vars

(* C17, amended: while paused, Simulation.update changes nothing; the      *)
(* position, heading, steering angle, trail, lane estimate, lap count and  *)
(* lap_ready stay the same over any number of paused ticks in which r is   *)
(* not pressed (r resets the car and the lap state also while paused);     *)
(* paused changes only in a handle_events that handles a SPACE key.        *)
C17_PausedFrame ==
    [][/\ (pc = "update" /\ paused) =>
             UNCHANGED <<carVars, uiVars, ctlVars, simVars, ioVars>>
       /\ (paused /\ paused' /\ ~ResetRan) =>
             UNCHANGED <<x, y, angle, steering_angle, trail, lane_center,
                         lap_count, lap_ready>>
       /\ paused' # paused => SpaceHandled]_vars

C17_Witness ==
    /\ paused
    /\ pc = "render"
    /\ lap_count = 1
    /\ ticks + 1 - nupd >= 2
    /\ trail # <<>>

\* the trail sample p is more than 400 units from the start (less than 60)
C19_Far(p) == DistSqToStart(p[1], p[2]) > LapFar * LapFar * 100
C19_Near(p) == DistSqToStart(p[1], p[2]) < LapNear * LapNear * 100

\* some update of this car was far from the start, and none since was near
C19_FarSinceLast ==
    \E j \in 1..Len(hist) :
        /\ C19_Far(hist[j])
        /\ \A i \in (j + 1)..Len(hist) : ~C19_Near(hist[i])

(* C19: the lap count rises only by exactly 1, only in an update that      *)
(* leaves the car within 60 units of the start, and only if since the last *)
(* increment or reset an earlier update left it more than 400 units from   *)
(* the start (every increment is at a near position, so that is: a far     *)
(* position with no near position after it); it never decreases except to  *)
(* 0 on reset.                                                             *)
C19_LapCounting ==
    [][/\ lap_count' > lap_count =>
             /\ lap_count' = lap_count + 1
             /\ UpdateRan
             /\ C19_Near(<<x', y'>>)
             /\ C19_FarSinceLast
       /\ lap_count' < lap_count => (lap_count' = 0 /\ ResetRan)]_vars

C19_Witness ==
    /\ pc = "render"
    /\ lap_count = 2
    /\ ~lap_ready
    /\ Len(hist) >= 2
    /\ C19_Near(hist[Len(hist)])
    /\ C19_Near(hist[Len(hist) - 1])
    /\ \E j \in 1..Len(hist) : C19_Far(hist[j])

----------------------------------------------------------------------------
(* Car.update statement by statement, each loop test and each loop body a  *)
(* step: a Car built with any finite heading, one update with the inputs   *)
(* held in cmd.                                                            *)

MaxQuarterTurns == 12

WrapHeadings ==
    { k * 9000 : k \in -MaxQuarterTurns..MaxQuarterTurns } \cup {HugeHeading, -HugeHeading}
WrapInputs == { <<RInt(0), None>>, <<RInt(35), RInt(60)>>, <<RInt(-20), RInt(20)>> }

WrapInit ==
    /\ \E a0 \in WrapHeadings : CarInit(StartX, StartY, a0)
    /\ IdleUi /\ IdleCtl /\ IdleSim
    /\ mask = <<{}, {}, {}, {}>>
    /\ ret_estimate = None /\ ret_steering = None /\ ret_speed = None
    /\ arg_steering = None /\ arg_base = None
    /\ cmd \in WrapInputs
    /\ pc = "update"

\* lines 40-59: clamp, integrate
UpdateIntegrate ==
    /\ pc = "update"
    /\ LET st == ClipSteering(cmd[1])
           sp == IF cmd[2] # None THEN ClipSpeed(cmd[2]) ELSE speed
       IN  /\ steering_angle' = st
           /\ speed' = sp
           /\ x' = x + Div(ToMilli(sp) * CosMilli(angle), 1000)
           /\ y' = y + Div(ToMilli(sp) * SinMilli(angle), 1000)
           /\ angle' = AngleAdd(angle, AngleStep(sp, st))
    /\ pc' = "wrap_down"
    /\ UNCHANGED <<trail, nupd, hist, uiVars, ctlVars, simVars, ioVars>>

\* while self.angle > 180:
WrapDownTest ==
    /\ pc = "wrap_down"
    /\ pc' = IF angle > HalfTurn THEN "wrap_down_body" ELSE "wrap_up"
    /\ UNCHANGED <<carVars, uiVars, ctlVars, simVars, ioVars>>

\*     self.angle -= 360
WrapDownBody ==
    /\ pc = "wrap_down_body"
    /\ angle' = AngleAdd(angle, -FullTurn)
    /\ pc' = "wrap_down"
    /\ UNCHANGED <<x, y, speed, steering_angle, trail, nupd, hist,
                   uiVars, ctlVars, simVars, ioVars>>

\* while self.angle < -180:
WrapUpTest ==
    /\ pc = "wrap_up"
    /\ pc' = IF angle < -HalfTurn THEN "wrap_up_body" ELSE "trail"
    /\ UNCHANGED <<carVars, uiVars, ctlVars, simVars, ioVars>>

\*     self.angle += 360
WrapUpBody ==
    /\ pc = "wrap_up_body"
    /\ angle' = AngleAdd(angle, FullTurn)
    /\ pc' = "wrap_up"
    /\ UNCHANGED <<x, y, speed, steering_angle, trail, nupd, hist,
                   uiVars, ctlVars, simVars, ioVars>>

\* lines 67-70: the trail; update returns
UpdateTrail ==
    /\ pc = "trail"
    /\ trail' = TrailPush(trail, <<x, y, speed>>)
    /\ hist' = Append(hist, <<x, y, speed>>)
    /\ nupd' = nupd + 1
    /\ pc' = "done"
    /\ UNCHANGED <<x, y, angle, speed, steering_angle, uiVars, ctlVars, simVars, ioVars>>

WrapNext ==
    \/ UpdateIntegrate
    \/ WrapDownTest
    \/ WrapDownBody
    \/ WrapUpTest
    \/ WrapUpBody
    \/ UpdateTrail

\* the interpreter keeps executing the call
SpecWrap == WrapInit /\ [][WrapNext]_vars /\ WF_vars(WrapNext)

(* C18: every call to Car.update terminates: for any finite state and      *)
(* inputs the two wrap-around loops finish after finitely many iterations. *)
C18_UpdateTerminates == <>(pc = "done")

====
